---- MODULE Spec2Model ----
(***************************************************************************)
(* go-funcards/mongodb: the gRPC error normalizer (interceptors.go), the   *)
(* generic collection adapter (Collection[T]) and the UseSession helper.   *)
(*                                                                         *)
(* Four specifications share the variables:                                *)
(*   SpecNorm    normalizeError and the two interceptors, on sample errors *)
(*   SpecFilter  Collection.NormalizeFilter, on sample filters             *)
(*   Spec        the adapter's operations over a small driver collection,  *)
(*               and the interceptor around a handler that ran one         *)
(*   SpecSession UseSession, one step of the function per action           *)
(***************************************************************************)
EXTENDS Integers, Sequences, FiniteSets

VARIABLES
    grpcUnwraps,  \* whether the linked grpc's status.FromError looks through wrapping
    norm,         \* normalizeError applied to a sample error, once and twice
    rpc,          \* the last interceptor call: what the handler did, what came back
    filt,         \* NormalizeFilter applied to a sample filter, once and twice
    store,        \* the driver collection: _id -> document value
    last,         \* the last adapter operation: inputs, driver calls, result
    sess          \* the UseSession call in progress

vars == <<grpcUnwraps, norm, rpc, filt, store, last, sess>>

(***************************************************************************)
(* Errors.  A Go error is the chain errors.Unwrap walks, outermost first;  *)
(* nil is the empty chain.  Each link has a kind (its dynamic type or      *)
(* sentinel identity), a status code ("" unless it is a *status.Error) and *)
(* its own text, a sequence of message fragments.                          *)
(***************************************************************************)
Nil == <<>>

Link(kind, code, text) == [kind |-> kind, code |-> code, text |-> text]

\* mongo.ErrNoDocuments, the sentinel.
ErrNoDocuments == << Link("ErrNoDocuments", "", <<"mongo: no documents in result">>) >>

\* A mongo.WriteException carrying server code 11000.
ErrDuplicateKey == << Link("DuplicateKey", "", <<"E11000 duplicate key error">>) >>

\* context.DeadlineExceeded, what a call cut off by the context's timeout returns.
ErrDeadline == << Link("DeadlineExceeded", "", <<"context deadline exceeded">>) >>

\* Any other driver failure (a network error that is no timeout).
ErrNetwork == << Link("Network", "", <<"connection reset">>) >>

\* A decoding failure of SingleResult.Decode / Cursor.All.
ErrBsonDecode == << Link("Decode", "", <<"cannot decode string into an integer type">>) >>

\* primitive.ErrInvalidHex and hex.InvalidByteError, what ObjectIDFromHex returns.
ErrInvalidHex == << Link("ErrInvalidHex", "", <<"the provided hex string is not a valid ObjectID">>) >>

ErrInvalidByte == << Link("InvalidByteError", "", <<"encoding/hex: invalid byte">>) >>

\* var ErrNormalizeFilter = errors.New("couldn't normalize filter")
ErrNormalizeFilter == << Link("ErrNormalizeFilter", "", <<"couldn't normalize filter">>) >>

\* A net.Error whose Timeout() is true and which wraps e.
NetTimeout(e) == << Link("NetTimeout", "", <<"i/o timeout: ">>) >> \o e

\* status.Error(code, msg): a fresh *status.Error, wrapping nothing.
StatusError(code, msg) == << Link("status", code, msg) >>

ErrMsgDecode == <<"failed to decode document due to error: ">>

ErrMsgQuery == <<"failed to execute query due to error: ">>

ErrMsgFromHex == <<"failed to convert hex to primitive.ObjectID due to error: ">>

\* err.Error(): a wrapError prints its format around the wrapped error's text, a
\* *status.Error prints its code and message.
RECURSIVE ErrorText(_)
ErrorText(e) ==
    IF e = <<>> THEN <<>>
    ELSE IF e[1].kind = "status"
         THEN <<"rpc error: code = ", e[1].code, " desc = ">> \o e[1].text
         ELSE e[1].text \o ErrorText(Tail(e))

\* fmt.Errorf(format, err) with %v in place of %w: e's text in a new error, its chain lost.
Flatten(format, e) == << Link("errorString", "", format \o ErrorText(e)) >>

\* fmt.Errorf(format, err) with the %w verb: a *fmt.wrapError around err.
Wrap(format, e) == << Link("wrapError", "", format) >> \o e

\* err.Error()
ErrorOf(e) == ErrorText(e)

\* errors.Is(err, mongo.ErrNoDocuments)
IsNoDocuments(e) == \E i \in 1..Len(e) : e[i].kind = "ErrNoDocuments"

\* mongo.IsDuplicateKeyError(err)
IsDuplicateKeyError(e) == \E i \in 1..Len(e) : e[i].kind = "DuplicateKey"

\* mongo.IsTimeout(err)
IsTimeout(e) == \E i \in 1..Len(e) : e[i].kind \in {"DeadlineExceeded", "NetTimeout"}

\* status.FromError(err), its ok result, for a non-nil err: the error is a
\* *status.Error itself or, with a grpc that unwraps, wraps one.
FromErrorOk(e) ==
    \/ e[1].kind = "status"
    \/ grpcUnwraps /\ \E i \in 1..Len(e) : e[i].kind = "status"

\* Faulty variant: the timeout test placed before the other two.
normalizeNoPrecedence(err) ==
    IF err = Nil THEN Nil
    ELSE IF FromErrorOk(err) THEN err
    ELSE IF IsTimeout(err) THEN StatusError("DeadlineExceeded", ErrorOf(err))
    ELSE IF IsNoDocuments(err) THEN StatusError("NotFound", ErrorOf(err))
    ELSE IF IsDuplicateKeyError(err) THEN StatusError("AlreadyExists", ErrorOf(err))
    ELSE StatusError("Internal", ErrorOf(err))

normalizeError(err) ==
    IF err = Nil THEN Nil
    ELSE IF FromErrorOk(err) THEN err
    ELSE IF IsNoDocuments(err) THEN StatusError("NotFound", ErrorOf(err))
    ELSE IF IsDuplicateKeyError(err) THEN StatusError("AlreadyExists", ErrorOf(err))
    ELSE IF IsTimeout(err) THEN StatusError("DeadlineExceeded", ErrorOf(err))
    ELSE StatusError("Internal", ErrorOf(err))

\* The status code an error reaches the wire with ("OK" for nil).
CodeOf(e) == IF e = Nil THEN "OK" ELSE e[1].code

(***************************************************************************)
(* The interceptors.  A handler invocation is its outcome (res, err); the  *)
(* record an interceptor yields keeps how often it invoked the handler,    *)
(* what the handler returned, and what the interceptor returned.           *)
(***************************************************************************)
NoRes == "nil"

Responses == {NoRes, "reply1", "reply2"}

NoRpc ==
    [kind |-> "none", handlerCalls |-> 0, handlerRes |-> NoRes, handlerErr |-> Nil,
     res |-> NoRes, err |-> Nil]

\* Faulty variant: the response dropped when the handler failed.
UnaryDropsResOnError(hres, herr) ==
    [kind |-> "unary", handlerCalls |-> 1, handlerRes |-> hres, handlerErr |-> herr,
     res |-> IF herr = Nil THEN hres ELSE NoRes, err |-> normalizeError(herr)]

\* res, err := handler(ctx, req); return res, normalizeError(err)
ErrorUnaryServerInterceptor(hres, herr) ==
    [kind |-> "unary", handlerCalls |-> 1, handlerRes |-> hres, handlerErr |-> herr,
     res |-> hres, err |-> normalizeError(herr)]

\* err := handler(srv, stream); return normalizeError(err)
ErrorStreamServerInterceptor(herr) ==
    [kind |-> "stream", handlerCalls |-> 1, handlerRes |-> NoRes, handlerErr |-> herr,
     res |-> NoRes, err |-> normalizeError(herr)]

(***************************************************************************)
(* SpecNorm: normalizeError and the interceptors on sample errors.         *)
(***************************************************************************)
Causes ==
    {ErrNoDocuments, ErrDuplicateKey, ErrDeadline, ErrNetwork, ErrBsonDecode,
     ErrNormalizeFilter, ErrInvalidHex,
     NetTimeout(ErrNoDocuments), NetTimeout(ErrDuplicateKey), NetTimeout(ErrNetwork)}

StatusCodes == {"NotFound", "AlreadyExists", "DeadlineExceeded", "Internal", "Unavailable"}

StatusErrs == {StatusError(c, <<"handler said so">>) : c \in StatusCodes}

SampleErrs ==
    {Nil} \cup Causes \cup {Wrap(ErrMsgQuery, e) : e \in Causes}
          \cup {Wrap(ErrMsgDecode, e) : e \in {ErrBsonDecode, ErrDeadline}}
          \cup StatusErrs \cup {Wrap(ErrMsgQuery, e) : e \in StatusErrs}

NoNorm == [stage |-> "idle", in |-> Nil, once |-> Nil, twice |-> Nil]

NoFilt == [stage |-> "idle"]

NoLast == [op |-> "none"]

NoSess == [pc |-> "idle"]

InitNorm ==
    /\ grpcUnwraps \in BOOLEAN
    /\ \E e \in SampleErrs : norm = [stage |-> "in", in |-> e, once |-> Nil, twice |-> Nil]
    /\ rpc = NoRpc
    /\ filt = NoFilt
    /\ store = <<>>
    /\ last = NoLast
    /\ sess = NoSess

NormalizeOnce ==
    /\ norm.stage = "in"
    /\ norm' = [norm EXCEPT !.stage = "once", !.once = normalizeError(norm.in)]
    /\ UNCHANGED <<grpcUnwraps, rpc, filt, store, last, sess>>

NormalizeTwice ==
    /\ norm.stage = "once"
    /\ norm' = [norm EXCEPT !.stage = "twice", !.twice = normalizeError(norm.once)]
    /\ UNCHANGED <<grpcUnwraps, rpc, filt, store, last, sess>>

\* A unary call whose handler returns (res, norm.in).
UnaryCall ==
    /\ \E hres \in Responses : rpc' = ErrorUnaryServerInterceptor(hres, norm.in)
    /\ UNCHANGED <<grpcUnwraps, norm, filt, store, last, sess>>

\* A streaming call whose handler returns norm.in.
StreamCall ==
    /\ rpc' = ErrorStreamServerInterceptor(norm.in)
    /\ UNCHANGED <<grpcUnwraps, norm, filt, store, last, sess>>

NextNorm == NormalizeOnce \/ NormalizeTwice \/ UnaryCall \/ StreamCall

SpecNorm == InitNorm /\ [][NextNorm]_vars

\* C1: normalizeError returns nil for nil, the same error for one that carries a
\* gRPC status, and otherwise a status error with the original message whose code
\* is NotFound for a no-documents cause, else AlreadyExists for a duplicate key,
\* else DeadlineExceeded for a timeout, else Internal; a second application
\* changes nothing.
C1_NormalizeClassifies ==
    LET e == norm.in
        r == norm.once
        Fresh(code) == /\ Len(r) = 1
                       /\ r[1].kind = "status"
                       /\ r[1].code = code
                       /\ r[1].text = ErrorOf(e)
    IN /\ norm.stage \in {"once", "twice"} =>
            /\ e = Nil => r = Nil
            /\ e # Nil /\ FromErrorOk(e) => r = e
            /\ e # Nil /\ ~FromErrorOk(e) =>
                  /\ IsNoDocuments(e) => Fresh("NotFound")
                  /\ ~IsNoDocuments(e) /\ IsDuplicateKeyError(e) => Fresh("AlreadyExists")
                  /\ ~IsNoDocuments(e) /\ ~IsDuplicateKeyError(e) /\ IsTimeout(e)
                        => Fresh("DeadlineExceeded")
                  /\ ~IsNoDocuments(e) /\ ~IsDuplicateKeyError(e) /\ ~IsTimeout(e)
                        => Fresh("Internal")
       /\ norm.stage = "twice" => norm.twice = norm.once

\* A no-documents error that is also a timeout was normalized, twice, to NotFound.
C1_Witness ==
    /\ norm.stage = "twice"
    /\ IsNoDocuments(norm.in) /\ IsTimeout(norm.in) /\ ~FromErrorOk(norm.in)
    /\ CodeOf(norm.twice) = "NotFound"

\* C2: each interceptor invokes the handler exactly once and returns
\* normalizeError of the handler's error (nil for nil); the unary one returns the
\* handler's response unaltered whether the handler failed or not.
C2_InterceptorsPassThrough ==
    rpc.kind # "none" =>
        /\ rpc.handlerCalls = 1
        /\ rpc.handlerErr = Nil => rpc.err = Nil
        /\ rpc.handlerErr # Nil /\ FromErrorOk(rpc.handlerErr) => rpc.err = rpc.handlerErr
        /\ rpc.handlerErr # Nil /\ ~FromErrorOk(rpc.handlerErr) =>
              /\ Len(rpc.err) = 1 /\ rpc.err[1].kind = "status"
              /\ rpc.err[1].text = ErrorOf(rpc.handlerErr)
              /\ rpc.err[1].code =
                    IF IsNoDocuments(rpc.handlerErr) THEN "NotFound"
                    ELSE IF IsDuplicateKeyError(rpc.handlerErr) THEN "AlreadyExists"
                    ELSE IF IsTimeout(rpc.handlerErr) THEN "DeadlineExceeded"
                    ELSE "Internal"
        /\ rpc.kind = "unary" => rpc.res = rpc.handlerRes

\* A unary call whose handler returned a response together with an unclassified error.
C2_Witness ==
    /\ rpc.kind = "unary"
    /\ rpc.handlerRes # NoRes /\ rpc.res = rpc.handlerRes
    /\ rpc.handlerErr # Nil /\ ~FromErrorOk(rpc.handlerErr)
    /\ CodeOf(rpc.err) = "AlreadyExists"

(***************************************************************************)
(* Values.  A Go value of dynamic type t; strings are sequences of         *)
(* one-character strings, an ObjectID is its 12 bytes as 24 hex digits'    *)
(* values, a bson.M / bson.D is its sequence of fields, a bson.E one field.*)
(***************************************************************************)
HexLen == 24

LowerDigits == <<"0", "1", "2", "3", "4", "5", "6", "7", "8", "9", "a", "b", "c", "d", "e", "f">>

UpperDigits == <<"0", "1", "2", "3", "4", "5", "6", "7", "8", "9", "A", "B", "C", "D", "E", "F">>

StrV(s) == [t |-> "string", v |-> s]

OidV(b) == [t |-> "ObjectID", v |-> b]

IntV(n) == [t |-> "int", v |-> <<n>>]

NilV == [t |-> "nil", v |-> <<>>]

Field(k, x) == [k |-> k, x |-> x]

M(fields) == [t |-> "M", v |-> fields]

D(fields) == [t |-> "D", v |-> fields]

E(k, x) == [t |-> "E", v |-> <<Field(k, x)>>]

A(elems) == [t |-> "A", v |-> elems]

\* primitive.NilObjectID
NilObjectID == [i \in 1..HexLen |-> 0]

IsHexChar(c) == \E n \in 1..16 : LowerDigits[n] = c \/ UpperDigits[n] = c

HexVal(c) == CHOOSE n \in 0..15 : LowerDigits[n + 1] = c \/ UpperDigits[n + 1] = c

\* primitive.ObjectIDFromHex(s): the length check, then hex.DecodeString.
ObjectIDFromHex(s) ==
    IF Len(s) # HexLen THEN [oid |-> NilObjectID, err |-> ErrInvalidHex]
    ELSE IF \E i \in 1..Len(s) : ~IsHexChar(s[i])
         THEN [oid |-> NilObjectID, err |-> ErrInvalidByte]
         ELSE [oid |-> [i \in 1..HexLen |-> HexVal(s[i])], err |-> Nil]

\* primitive.ObjectID.Hex(): lower-case hex.
Hex(oid) == [i \in 1..HexLen |-> LowerDigits[oid[i] + 1]]

\* Collection.ObjectID(id)
ObjectID(id) ==
    LET r == ObjectIDFromHex(id)
    IN IF r.err # Nil THEN [oid |-> r.oid, err |-> Wrap(ErrMsgFromHex, r.err)]
       ELSE [oid |-> r.oid, err |-> Nil]

\* Faulty variant: the error of Collection.ObjectID not checked.
NormalizeFilterUnchecked(filter) ==
    LET f1 == IF filter.t = "string" THEN OidV(ObjectID(filter.v).oid) ELSE filter
    IN IF f1.t = "ObjectID" THEN [data |-> M(<<Field("_id", f1)>>), err |-> Nil]
       ELSE IF f1.t \in {"A", "D", "E", "M"} THEN [data |-> f1, err |-> Nil]
       ELSE [data |-> NilV, err |-> ErrNormalizeFilter]

\* Collection.NormalizeFilter(filter): (data, err)
NormalizeFilter(filter) ==
    LET conv == IF filter.t = "string" THEN ObjectID(filter.v)
                ELSE [oid |-> NilObjectID, err |-> Nil]
        f1 == IF filter.t = "string" THEN OidV(conv.oid) ELSE filter
    IN IF conv.err # Nil THEN [data |-> NilV, err |-> conv.err]
       ELSE IF f1.t = "ObjectID" THEN [data |-> M(<<Field("_id", f1)>>), err |-> Nil]
       ELSE IF f1.t \in {"A", "D", "E", "M"} THEN [data |-> f1, err |-> Nil]
       ELSE [data |-> NilV, err |-> ErrNormalizeFilter]

(***************************************************************************)
(* Sample identifiers, strings and filters.                                *)
(***************************************************************************)
\* The 24-character string whose first character is c and whose others are "0".
HexStr(c) == [i \in 1..HexLen |-> IF i = 1 THEN c ELSE "0"]

NotHex == <<"a", "b", "c">>

SampleStrings ==
    {HexStr("1"), HexStr("2"), HexStr("a"), HexStr("A"), HexStr("F"), HexStr("g"), HexStr("-"),
     SubSeq(HexStr("1"), 1, HexLen - 1), HexStr("1") \o <<"0">>, NotHex, <<>>}

\* The ObjectIDs the driver generates, in the order it generates them.
MaxGen == 1

GenOid(n) == OidV([i \in 1..HexLen |-> IF i = 1 THEN n ELSE 0])

GenOids == {GenOid(n) : n \in 1..MaxGen}

\* _id values the caller supplies: a string that is no hex, the 24 hex characters
\* that also spell the first generated ObjectID, an integer.
ExternalIds == {StrV(NotHex), StrV(HexStr("1")), IntV(42)}

IdVals == GenOids \cup ExternalIds

Selectors == {<<>>, <<Field("name", StrV(<<"x">>))>>} \cup {<<Field("_id", id)>> : id \in IdVals}

SampleFilters ==
    {StrV(s) : s \in SampleStrings}
        \cup GenOids \cup {OidV(NilObjectID), OidV(ObjectIDFromHex(HexStr("a")).oid)}
        \cup {M(sel) : sel \in Selectors} \cup {D(sel) : sel \in Selectors}
        \cup {E("_id", id) : id \in IdVals} \cup {E("name", StrV(<<"x">>))}
        \cup {A(<<>>), A(<<M(<<>>)>>), A(<<D(<<>>), E("_id", IntV(42))>>)}
        \cup {IntV(42), IntV(0), NilV, [t |-> "bool", v |-> <<TRUE>>], [t |-> "struct", v |-> <<>>],
              [t |-> "float64", v |-> <<42>>], [t |-> "*string", v |-> NotHex]}

(***************************************************************************)
(* SpecFilter: NormalizeFilter on sample filters, and again on its output. *)
(***************************************************************************)
NoOut == [data |-> NilV, err |-> Nil]

InitFilter ==
    /\ grpcUnwraps = TRUE
    /\ norm = NoNorm
    /\ rpc = NoRpc
    /\ \E f \in SampleFilters : filt = [stage |-> "in", in |-> f, once |-> NoOut, twice |-> NoOut]
    /\ store = <<>>
    /\ last = NoLast
    /\ sess = NoSess

FilterOnce ==
    /\ filt.stage = "in"
    /\ filt' = [filt EXCEPT !.stage = "once", !.once = NormalizeFilter(filt.in)]
    /\ UNCHANGED <<grpcUnwraps, norm, rpc, store, last, sess>>

FilterTwice ==
    /\ filt.stage = "once"
    /\ filt.once.err = Nil
    /\ filt' = [filt EXCEPT !.stage = "twice", !.twice = NormalizeFilter(filt.once.data)]
    /\ UNCHANGED <<grpcUnwraps, norm, rpc, store, last, sess>>

NextFilter == FilterOnce \/ FilterTwice

SpecFilter == InitFilter /\ [][NextFilter]_vars

WellFormedHex(s) ==
    /\ Len(s) = HexLen
    /\ \A i \in 1..Len(s) : \E n \in 1..16 : s[i] \in {LowerDigits[n], UpperDigits[n]}

\* x is the filter {"_id": an ObjectID whose hex digits spell s, in either case}.
IsIdFilterOfHex(x, s) ==
    /\ x.t = "M" /\ Len(x.v) = 1 /\ x.v[1].k = "_id" /\ x.v[1].x.t = "ObjectID"
    /\ \A i \in 1..HexLen :
          s[i] \in {LowerDigits[x.v[1].x.v[i] + 1], UpperDigits[x.v[1].x.v[i] + 1]}

\* C3: NormalizeFilter maps a well-formed hex string to {"_id": ObjectID(parsed)},
\* an ObjectID to {"_id": it}, returns a bson.A/D/E/M unchanged, fails a malformed
\* hex string with the wrapped hex-parse error (not ErrNormalizeFilter, and no
\* data), fails every other shape with ErrNormalizeFilter; normalizing a
\* successful output again returns the same value.
C3_NormalizeFilterByShape ==
    LET f == filt.in
        r == filt.once
    IN /\ filt.stage \in {"once", "twice"} =>
            /\ f.t = "string" /\ WellFormedHex(f.v) =>
                  r.err = Nil /\ IsIdFilterOfHex(r.data, f.v)
            /\ f.t = "string" /\ ~WellFormedHex(f.v) =>
                  /\ r.data = NilV
                  /\ r.err # Nil /\ r.err # ErrNormalizeFilter
                  /\ r.err[1] = Link("wrapError", "", ErrMsgFromHex)
                  /\ Tail(r.err) \in {ErrInvalidHex, ErrInvalidByte}
            /\ f.t = "ObjectID" => r.err = Nil /\ r.data = M(<<Field("_id", f)>>)
            /\ f.t \in {"A", "D", "E", "M"} => r.err = Nil /\ r.data = f
            /\ f.t \notin {"string", "ObjectID", "A", "D", "E", "M"} =>
                  r.err = ErrNormalizeFilter /\ r.data = NilV
       /\ filt.stage = "twice" => filt.twice = filt.once

\* An upper-case hex string was normalized to the ObjectID filter, and that again.
C3_Witness ==
    /\ filt.stage = "twice"
    /\ filt.in = StrV(HexStr("A"))
    /\ filt.twice.data = M(<<Field("_id", OidV(ObjectIDFromHex(HexStr("a")).oid))>>)

(***************************************************************************)
(* The driver collection (mongo.Collection, c.Inner): documents {_id, val} *)
(* kept as _id -> val, and the generated ObjectIDs already taken.  A call  *)
(* may fail for the environment's reasons (fault): the context's deadline  *)
(* passing, or a duplicate key on a unique index.                          *)
(***************************************************************************)
Vals == {0, 1}

EmptyStore == [docs |-> <<>>, used |-> {}]

\* The ObjectID the driver generates next: the first one never taken.
HasFresh(st) == GenOids \ st.used # {}

FreshOid(st) ==
    GenOid(CHOOSE n \in 1..MaxGen :
              /\ GenOid(n) \notin st.used
              /\ \A m \in 1..(n - 1) : GenOid(m) \in st.used)

Put(f, k, x) == [y \in DOMAIN f \cup {k} |-> IF y = k THEN x ELSE f[y]]

Remove(f, k) == [y \in DOMAIN f \ {k} |-> f[y]]

\* The collection with x stored under id.
Stored(st, id, x) == [docs |-> Put(st.docs, id, x), used |-> st.used \cup ({id} \cap GenOids)]

FaultErr(fault) == IF fault = "timeout" THEN ErrDeadline ELSE ErrDuplicateKey

ErrMarshal == << Link("Marshal", "", <<"cannot transform type to a BSON Document">>) >>

\* Whether the document under id satisfies a filter document's fields.
FieldsMatch(fields, id) ==
    \A i \in 1..Len(fields) : fields[i].k = "_id" /\ fields[i].x = id

\* The documents a filter selects: a bson.M / bson.D by its fields, a bson.E
\* (marshalled as {key, value}) none.
Matching(st, filter) ==
    IF filter.t \in {"M", "D"} THEN {id \in DOMAIN st.docs : FieldsMatch(filter.v, id)}
    ELSE {}

\* What the driver refuses before sending: a bson.A is no document.
FilterErr(filter) == IF filter.t = "A" THEN ErrMarshal ELSE Nil

DriverResult(st, err) ==
    [st |-> st, err |-> err, MatchedCount |-> 0, ModifiedCount |-> 0, UpsertedCount |-> 0,
     DeletedCount |-> 0, ids |-> <<>>, found |-> {}, total |-> 0]

\* mongo.Collection.InsertOne: the _id given, or a generated ObjectID.
DriverInsertOne(st, doc, fault) ==
    LET id == IF doc.id = NilV THEN FreshOid(st) ELSE doc.id
    IN IF fault # "none" THEN DriverResult(st, FaultErr(fault))
       ELSE IF id \in DOMAIN st.docs THEN DriverResult(st, ErrDuplicateKey)
       ELSE [DriverResult(Stored(st, id, doc.val), Nil) EXCEPT !.ids = <<id>>]

\* mongo.Collection.InsertMany, ordered: stops at the first failure.
RECURSIVE DriverInsertMany(_, _, _)
DriverInsertMany(st, docs, fault) ==
    IF docs = <<>> THEN DriverResult(st, Nil)
    ELSE LET one == DriverInsertOne(st, docs[1], fault)
         IN IF one.err # Nil THEN one
            ELSE LET rest == DriverInsertMany(one.st, Tail(docs), fault)
                 IN [rest EXCEPT !.ids = one.ids \o rest.ids]

\* The _id an upsert inserts under: the filter's, or a generated one.
UpsertId(st, filter) ==
    IF filter.t \in {"M", "D"} /\ Len(filter.v) = 1 /\ filter.v[1].k = "_id"
    THEN filter.v[1].x
    ELSE FreshOid(st)

\* mongo.Collection.UpdateOne with {"$set": {"val": x}}; pick is the document the
\* server updates when the filter selects some.
DriverUpdateOne(st, filter, x, upsert, fault, pick) ==
    LET sel == Matching(st, filter)
        new == UpsertId(st, filter)
    IN IF fault # "none" THEN DriverResult(st, FaultErr(fault))
       ELSE IF FilterErr(filter) # Nil THEN DriverResult(st, FilterErr(filter))
       ELSE IF sel # {} THEN
            [DriverResult([st EXCEPT !.docs = Put(st.docs, pick, x)], Nil) EXCEPT
                !.MatchedCount = 1,
                !.ModifiedCount = IF st.docs[pick] # x THEN 1 ELSE 0]
       ELSE IF upsert THEN
            [DriverResult(Stored(st, new, x), Nil) EXCEPT
                !.UpsertedCount = 1, !.ids = <<new>>]
       ELSE DriverResult(st, Nil)

\* mongo.Collection.DeleteOne
DriverDeleteOne(st, filter, fault, pick) ==
    IF fault # "none" THEN DriverResult(st, FaultErr(fault))
    ELSE IF FilterErr(filter) # Nil THEN DriverResult(st, FilterErr(filter))
    ELSE IF Matching(st, filter) # {} THEN
         [DriverResult([st EXCEPT !.docs = Remove(st.docs, pick)], Nil) EXCEPT
             !.DeletedCount = 1]
    ELSE DriverResult(st, Nil)

\* mongo.Collection.FindOne: the SingleResult, whose Err() is mongo.ErrNoDocuments
\* when nothing is selected.
DriverFindOne(st, filter, fault, pick) ==
    IF fault # "none" THEN DriverResult(st, FaultErr(fault))
    ELSE IF FilterErr(filter) # Nil THEN DriverResult(st, FilterErr(filter))
    ELSE IF Matching(st, filter) = {} THEN DriverResult(st, ErrNoDocuments)
    ELSE [DriverResult(st, Nil) EXCEPT !.found = {pick}]

\* mongo.Collection.Find: the cursor over the selected documents.
DriverFind(st, filter, fault) ==
    IF fault # "none" THEN DriverResult(st, FaultErr(fault))
    ELSE IF FilterErr(filter) # Nil THEN DriverResult(st, FilterErr(filter))
    ELSE [DriverResult(st, Nil) EXCEPT !.found = Matching(st, filter)]

\* mongo.Collection.CountDocuments
DriverCountDocuments(st, filter, fault) ==
    IF fault # "none" THEN DriverResult(st, FaultErr(fault))
    ELSE IF FilterErr(filter) # Nil THEN DriverResult(st, FilterErr(filter))
    ELSE [DriverResult(st, Nil) EXCEPT !.total = Cardinality(Matching(st, filter))]

(***************************************************************************)
(* The adapter, Collection[T].  Each operation yields the collection after *)
(* it and the record of the call: the driver calls it made, the driver's   *)
(* result, what it returned, and whether it panicked instead of returning. *)
(***************************************************************************)
NoResult == DriverResult(EmptyStore, Nil)

Call(op, arg) == [op |-> op, arg |-> arg]

Done(st, op, arg, calls, res, out, err, panicked) ==
    [st |-> st,
     last |-> [op |-> op, arg |-> arg, calls |-> calls, res |-> [res EXCEPT !.st = EmptyStore],
               out |-> out, err |-> err, panicked |-> panicked]]

\* The string an insert returns for a driver identifier: oid.Hex() for an
\* ObjectID, else id.(string), which panics unless the identifier is a string.
IsStringable(id) == id.t \in {"ObjectID", "string"}

IdString(id) == IF id.t = "ObjectID" THEN Hex(id.v) ELSE id.v

\* Collection.InsertOne(ctx, document)
InsertOne(st, doc, fault) ==
    LET r == DriverInsertOne(st, doc, fault)
        calls == <<Call("InsertOne", doc)>>
    IN IF r.err # Nil
       THEN Done(r.st, "InsertOne", doc, calls, r, <<>>, Wrap(ErrMsgQuery, r.err), FALSE)
       ELSE IF IsStringable(r.ids[1])
       THEN Done(r.st, "InsertOne", doc, calls, r, <<IdString(r.ids[1])>>, Nil, FALSE)
       ELSE Done(r.st, "InsertOne", doc, calls, r, <<>>, Nil, TRUE)

\* Collection.InsertMany(ctx, documents)
InsertMany(st, docs, fault) ==
    LET r == DriverInsertMany(st, docs, fault)
        calls == <<Call("InsertMany", docs)>>
    IN IF r.err # Nil
       THEN Done(r.st, "InsertMany", docs, calls, r, <<>>, Wrap(ErrMsgQuery, r.err), FALSE)
       ELSE IF \A i \in 1..Len(r.ids) : IsStringable(r.ids[i])
       THEN Done(r.st, "InsertMany", docs, calls, r,
                 [i \in 1..Len(r.ids) |-> IdString(r.ids[i])], Nil, FALSE)
       ELSE Done(r.st, "InsertMany", docs, calls, r, <<>>, Nil, TRUE)

\* Faulty variant: the zero-effect check without MatchedCount.
UpdateOneConflates(st, filter, x, upsert, fault, pick) ==
    LET nf == NormalizeFilter(filter)
        r == DriverUpdateOne(st, nf.data, x, upsert, fault, pick)
        calls == <<Call("UpdateOne", nf.data)>>
    IN IF nf.err # Nil
       THEN Done(st, "UpdateOne", filter, <<>>, NoResult, <<>>, nf.err, FALSE)
       ELSE IF r.err # Nil
       THEN Done(r.st, "UpdateOne", filter, calls, r, <<>>, Wrap(ErrMsgQuery, r.err), FALSE)
       ELSE IF r.ModifiedCount = 0 /\ r.UpsertedCount = 0
       THEN Done(r.st, "UpdateOne", filter, calls, r, <<>>,
                 Wrap(ErrMsgQuery, ErrNoDocuments), FALSE)
       ELSE Done(r.st, "UpdateOne", filter, calls, r, <<>>, Nil, FALSE)

\* Collection.UpdateOne(ctx, filter, update, opts)
UpdateOne(st, filter, x, upsert, fault, pick) ==
    LET nf == NormalizeFilter(filter)
        r == DriverUpdateOne(st, nf.data, x, upsert, fault, pick)
        calls == <<Call("UpdateOne", nf.data)>>
    IN IF nf.err # Nil
       THEN Done(st, "UpdateOne", filter, <<>>, NoResult, <<>>, nf.err, FALSE)
       ELSE IF r.err # Nil
       THEN Done(r.st, "UpdateOne", filter, calls, r, <<>>, Wrap(ErrMsgQuery, r.err), FALSE)
       ELSE IF r.MatchedCount = 0 /\ r.ModifiedCount = 0 /\ r.UpsertedCount = 0
       THEN Done(r.st, "UpdateOne", filter, calls, r, <<>>,
                 Wrap(ErrMsgQuery, ErrNoDocuments), FALSE)
       ELSE Done(r.st, "UpdateOne", filter, calls, r, <<>>, Nil, FALSE)

\* Faulty variant: no DeletedCount check.
DeleteOneIgnoresCount(st, filter, fault, pick) ==
    LET nf == NormalizeFilter(filter)
        r == DriverDeleteOne(st, nf.data, fault, pick)
        calls == <<Call("DeleteOne", nf.data)>>
    IN IF nf.err # Nil
       THEN Done(st, "DeleteOne", filter, <<>>, NoResult, <<>>, nf.err, FALSE)
       ELSE IF r.err # Nil
       THEN Done(r.st, "DeleteOne", filter, calls, r, <<>>, Wrap(ErrMsgQuery, r.err), FALSE)
       ELSE Done(r.st, "DeleteOne", filter, calls, r, <<>>, Nil, FALSE)

\* Collection.DeleteOne(ctx, filter, opts)
DeleteOne(st, filter, fault, pick) ==
    LET nf == NormalizeFilter(filter)
        r == DriverDeleteOne(st, nf.data, fault, pick)
        calls == <<Call("DeleteOne", nf.data)>>
    IN IF nf.err # Nil
       THEN Done(st, "DeleteOne", filter, <<>>, NoResult, <<>>, nf.err, FALSE)
       ELSE IF r.err # Nil
       THEN Done(r.st, "DeleteOne", filter, calls, r, <<>>, Wrap(ErrMsgQuery, r.err), FALSE)
       ELSE IF r.DeletedCount = 0
       THEN Done(r.st, "DeleteOne", filter, calls, r, <<>>,
                 Wrap(ErrMsgQuery, ErrNoDocuments), FALSE)
       ELSE Done(r.st, "DeleteOne", filter, calls, r, <<>>, Nil, FALSE)

\* Collection.Decode(r): the query's error, else the decoding's, else the document.
Decode(r, decodeErr) ==
    IF r.err # Nil THEN [out |-> <<>>, err |-> Wrap(ErrMsgQuery, r.err)]
    ELSE IF decodeErr # Nil THEN [out |-> <<>>, err |-> Wrap(ErrMsgDecode, decodeErr)]
    ELSE [out |-> r.found, err |-> Nil]

\* Collection.All(ctx, cur); a cursor Find returned without error has no Err().
All(r, allErr) ==
    IF allErr # Nil THEN [out |-> <<>>, err |-> Wrap(ErrMsgDecode, allErr)]
    ELSE [out |-> r.found, err |-> Nil]

\* Collection.FindOne(ctx, filter, opts)
FindOne(st, filter, fault, pick, decodeErr) ==
    LET nf == NormalizeFilter(filter)
        r == DriverFindOne(st, nf.data, fault, pick)
        d == Decode(r, decodeErr)
    IN IF nf.err # Nil
       THEN Done(st, "FindOne", filter, <<>>, NoResult, <<>>, nf.err, FALSE)
       ELSE Done(r.st, "FindOne", filter, <<Call("FindOne", nf.data)>>, r, d.out, d.err, FALSE)

\* Collection.Find(ctx, filter, opts)
Find(st, filter, fault, allErr) ==
    LET nf == NormalizeFilter(filter)
        r == DriverFind(st, nf.data, fault)
        calls == <<Call("Find", nf.data)>>
        d == All(r, allErr)
    IN IF nf.err # Nil
       THEN Done(st, "Find", filter, <<>>, NoResult, <<>>, nf.err, FALSE)
       ELSE IF r.err # Nil
       THEN Done(r.st, "Find", filter, calls, r, <<>>, Wrap(ErrMsgQuery, r.err), FALSE)
       ELSE Done(r.st, "Find", filter, calls, r, d.out, d.err, FALSE)

\* Faulty variant: the driver called first, with the filter as given.
CountDocumentsRawFilter(st, filter, fault) ==
    LET nf == NormalizeFilter(filter)
        r == DriverCountDocuments(st, filter, fault)
        calls == <<Call("CountDocuments", filter)>>
    IN IF r.err # Nil
       THEN Done(r.st, "CountDocuments", filter, calls, r, 0, Wrap(ErrMsgQuery, r.err), FALSE)
       ELSE IF nf.err # Nil
       THEN Done(st, "CountDocuments", filter, calls, r, 0, nf.err, FALSE)
       ELSE Done(r.st, "CountDocuments", filter, calls, r, r.total, Nil, FALSE)

\* Collection.CountDocuments(ctx, filter, opts)
CountDocuments(st, filter, fault) ==
    LET nf == NormalizeFilter(filter)
        r == DriverCountDocuments(st, nf.data, fault)
        calls == <<Call("CountDocuments", nf.data)>>
    IN IF nf.err # Nil
       THEN Done(st, "CountDocuments", filter, <<>>, NoResult, 0, nf.err, FALSE)
       ELSE IF r.err # Nil
       THEN Done(r.st, "CountDocuments", filter, calls, r, 0, Wrap(ErrMsgQuery, r.err), FALSE)
       ELSE Done(r.st, "CountDocuments", filter, calls, r, r.total, Nil, FALSE)

(***************************************************************************)
(* Spec: a caller runs one adapter operation at a time on the collection;  *)
(* when the caller is a handler, its result goes back through an           *)
(* interceptor; then the call is over and the next one may start.          *)
(***************************************************************************)
MaxBatch == 2

OpFilters ==
    {StrV(HexStr("1")), StrV(HexStr("g")), StrV(NotHex), GenOid(1),
     M(<<>>), D(<<Field("_id", StrV(NotHex))>>), E("_id", IntV(42)), A(<<>>), IntV(42)}
        \cup {M(<<Field("_id", id)>>) : id \in IdVals}

InsertDocs == {[id |-> id, val |-> 0] : id \in ExternalIds \cup {NilV}}

BatchDocs == {[id |-> id, val |-> 0] : id \in {NilV, StrV(NotHex), IntV(42)}}

Batches == UNION {[1..n -> BatchDocs] : n \in 1..MaxBatch}

\* The documents the server may pick for a filter as the adapter passes it on.
Picks(st, filter) ==
    LET nf == NormalizeFilter(filter)
    IN IF nf.err = Nil /\ Matching(st, nf.data) # {} THEN Matching(st, nf.data) ELSE {NilV}

\* Whether an upsert under this filter would have the driver generate the _id.
GeneratesId(filter) ==
    LET nf == NormalizeFilter(filter)
    IN nf.err = Nil /\ ~(nf.data.t \in {"M", "D"} /\ Len(nf.data.v) = 1 /\ nf.data.v[1].k = "_id")

\* How many of docs need a generated _id, and how many the driver can still generate.
NeedFresh(docs) == Cardinality({i \in 1..Len(docs) : docs[i].id = NilV})

Room(st) == Cardinality(GenOids \ st.used)

\* No error of this specification carries a gRPC status, so FromError's
\* unwrapping does not matter here.
Init ==
    /\ grpcUnwraps = FALSE
    /\ norm = NoNorm
    /\ rpc = NoRpc
    /\ filt = NoFilt
    /\ store = EmptyStore
    /\ last = NoLast
    /\ sess = NoSess

Apply(d) ==
    /\ store' = d.st
    /\ last' = d.last
    /\ rpc' = NoRpc
    /\ UNCHANGED <<grpcUnwraps, norm, filt, sess>>

InsertOneCall ==
    /\ last = NoLast
    /\ \E doc \in InsertDocs, fault \in {"none", "timeout"} :
          /\ doc.id = NilV => HasFresh(store)
          /\ Apply(InsertOne(store, doc, fault))

InsertManyCall ==
    /\ last = NoLast
    /\ \E docs \in Batches, fault \in {"none", "timeout"} :
          /\ NeedFresh(docs) <= Room(store)
          /\ Apply(InsertMany(store, docs, fault))

UpdateOneCall ==
    /\ last = NoLast
    /\ \E filter \in OpFilters, x \in Vals, upsert \in BOOLEAN :
          \E fault \in {"none", "timeout"} \cup (IF upsert THEN {"dup"} ELSE {}),
             pick \in Picks(store, filter) :
              /\ upsert /\ GeneratesId(filter) => HasFresh(store)
              /\ Apply(UpdateOne(store, filter, x, upsert, fault, pick))

DeleteOneCall ==
    /\ last = NoLast
    /\ \E filter \in OpFilters, fault \in {"none", "timeout"} :
          \E pick \in Picks(store, filter) :
              Apply(DeleteOne(store, filter, fault, pick))

FindOneCall ==
    /\ last = NoLast
    /\ \E filter \in OpFilters, fault \in {"none", "timeout"}, decodeErr \in {Nil, ErrBsonDecode} :
          \E pick \in Picks(store, filter) :
              Apply(FindOne(store, filter, fault, pick, decodeErr))

FindCall ==
    /\ last = NoLast
    /\ \E filter \in OpFilters, fault \in {"none", "timeout"},
          allErr \in {Nil, ErrBsonDecode, ErrDeadline} :
          Apply(Find(store, filter, fault, allErr))

CountDocumentsCall ==
    /\ last = NoLast
    /\ \E filter \in OpFilters, fault \in {"none", "timeout"} :
          Apply(CountDocuments(store, filter, fault))

\* The handler that ran the last operation returns its error to the unary interceptor.
HandlerReturnsUnary ==
    /\ last.op # "none" /\ ~last.panicked /\ rpc = NoRpc
    /\ \E hres \in Responses : rpc' = ErrorUnaryServerInterceptor(hres, last.err)
    /\ UNCHANGED <<grpcUnwraps, norm, filt, store, last, sess>>

\* The same, of a streaming handler.
HandlerReturnsStream ==
    /\ last.op # "none" /\ ~last.panicked /\ rpc = NoRpc
    /\ rpc' = ErrorStreamServerInterceptor(last.err)
    /\ UNCHANGED <<grpcUnwraps, norm, filt, store, last, sess>>

\* The call is over: its record is dropped.
CallReturns ==
    /\ last # NoLast
    /\ last' = NoLast
    /\ rpc' = NoRpc
    /\ UNCHANGED <<grpcUnwraps, norm, filt, store, sess>>

Next ==
    \/ InsertOneCall
    \/ InsertManyCall
    \/ UpdateOneCall
    \/ DeleteOneCall
    \/ FindOneCall
    \/ FindCall
    \/ CountDocumentsCall
    \/ HandlerReturnsUnary
    \/ HandlerReturnsStream
    \/ CallReturns

Spec == Init /\ [][Next]_vars

(***************************************************************************)
(* SpecSession: UseSession, step by step.  sess keeps the position in the  *)
(* function, the driver calls made so far (log), the locals err and        *)
(* abortErr, the panic in flight, the session's transaction state and how  *)
(* the call ended.                                                         *)
(***************************************************************************)
ErrStartSession == << Link("Topology", "", <<"client is disconnected">>) >>

ErrSessionsUnsupported == << Link("Topology", "", <<"sessions are not supported">>) >>

ErrNoTransactStarted == << Link("Session", "", <<"no transaction started">>) >>

ErrAbortAfterCommit == << Link("Session", "", <<"cannot call abortTransaction after calling commitTransaction">>) >>

ErrFnPanic == << Link("panic", "", <<"runtime error in fn">>) >>

FnErrs == {Wrap(ErrMsgQuery, ErrNoDocuments), Wrap(ErrMsgQuery, ErrDeadline), ErrNormalizeFilter}

NoRet == [kind |-> "none", val |-> Nil]

Return(e) == [kind |-> "return", val |-> e]

Panic(e) == [kind |-> "panic", val |-> e]

Session(pc, via, log, err, abortErr, panic, txn, ret) ==
    [pc |-> pc, via |-> via, log |-> log, err |-> err, abortErr |-> abortErr,
     panic |-> panic, txn |-> txn, ret |-> ret]

InitSession ==
    /\ grpcUnwraps = FALSE
    /\ norm = NoNorm
    /\ rpc = NoRpc
    /\ filt = NoFilt
    /\ store = EmptyStore
    /\ last = NoLast
    /\ \E via \in {"UseSession", "Collection.UseSession"} :
          sess = Session("start", via, <<>>, Nil, Nil, Nil, "none", NoRet)

\* session, err := client.StartSession(); if err != nil { return err }
StartSession ==
    /\ sess.pc = "start"
    /\ \E e \in {Nil, ErrStartSession, ErrSessionsUnsupported} :
          sess' = IF e = Nil
                  THEN [sess EXCEPT !.pc = "fn", !.log = Append(@, "StartSession")]
                  ELSE [sess EXCEPT !.pc = "done", !.log = Append(@, "StartSession"),
                                    !.err = e, !.ret = Return(e)]
    /\ UNCHANGED <<grpcUnwraps, norm, rpc, filt, store, last>>

\* err = mongo.WithSession(ctx, session, fn): fn returns nil or an error, or
\* panics, having left the session's transaction in any state.
WithSession ==
    /\ sess.pc = "fn"
    /\ \E txn \in {"none", "inProgress", "committed"} :
          \/ \E e \in {Nil} \cup FnErrs :
                sess' = [sess EXCEPT !.pc = IF e = Nil THEN "defer" ELSE "abort",
                                     !.log = Append(@, "fn"), !.txn = txn, !.err = e]
          \/ sess' = [sess EXCEPT !.pc = "defer", !.log = Append(@, "fn"), !.txn = txn,
                                  !.panic = ErrFnPanic]
    /\ UNCHANGED <<grpcUnwraps, norm, rpc, filt, store, last>>

\* Faulty variant: a failed abort not escalated.
AbortSwallowsError ==
    /\ sess.pc = "abort"
    /\ \E e \in {Nil, ErrNoTransactStarted, ErrAbortAfterCommit} :
          sess' = [sess EXCEPT !.pc = "defer", !.log = Append(@, "AbortTransaction"),
                               !.abortErr = e,
                               !.txn = IF e = Nil THEN "aborted" ELSE @]
    /\ UNCHANGED <<grpcUnwraps, norm, rpc, filt, store, last>>

\* if abortErr := session.AbortTransaction(ctx); abortErr != nil { panic(abortErr) }
AbortTransaction ==
    /\ sess.pc = "abort"
    /\ \E e \in {Nil, ErrNoTransactStarted, ErrAbortAfterCommit} :
          sess' = [sess EXCEPT !.pc = "defer", !.log = Append(@, "AbortTransaction"),
                               !.abortErr = e,
                               !.panic = e,
                               !.txn = IF e = Nil THEN "aborted" ELSE @]
    /\ UNCHANGED <<grpcUnwraps, norm, rpc, filt, store, last>>

\* defer session.EndSession(ctx), run on return and on panic; then the function
\* returns err (nil after a successful fn) or the panic goes on up.
EndSession ==
    /\ sess.pc = "defer"
    /\ sess' = [sess EXCEPT !.pc = "done", !.log = Append(@, "EndSession"),
                            !.ret = IF sess.panic # Nil THEN Panic(sess.panic)
                                    ELSE Return(sess.err)]
    /\ UNCHANGED <<grpcUnwraps, norm, rpc, filt, store, last>>

NextSession == StartSession \/ WithSession \/ AbortTransaction \/ EndSession

SpecSession == InitSession /\ [][NextSession]_vars

IsPrefix(a, b) == Len(a) <= Len(b) /\ SubSeq(b, 1, Len(a)) = a

Count(log, ev) == Cardinality({i \in 1..Len(log) : log[i] = ev})

\* C7: UseSession calls StartSession, then fn, then AbortTransaction only if fn
\* returned an error, then EndSession.  A failed StartSession is returned and fn
\* not run.  After fn's error AbortTransaction is called exactly once, whatever
\* the transaction state; abort succeeded: fn's error is returned; abort failed:
\* the abort error is the panic.  After fn's success no abort, nil returned.
\* EndSession runs exactly once on every exit after a successful StartSession,
\* and not before the abort.
C7_UseSessionOrder ==
    LET started == Len(sess.log) >= 1 /\ ~(sess.pc = "done" /\ Len(sess.log) = 1)
        fnRan == Len(sess.log) >= 2
        fnFailed == fnRan /\ sess.err # Nil
    IN /\ sess.pc # "idle" =>
            \/ IsPrefix(sess.log, <<"StartSession", "fn", "EndSession">>)
            \/ IsPrefix(sess.log, <<"StartSession", "fn", "AbortTransaction", "EndSession">>)
       /\ sess.pc = "done" /\ ~started =>
            /\ sess.log = <<"StartSession">>
            /\ sess.ret.kind = "return" /\ sess.ret.val \in {ErrStartSession, ErrSessionsUnsupported}
       /\ sess.pc = "done" /\ started =>
            /\ Count(sess.log, "EndSession") = 1
            /\ sess.log[Len(sess.log)] = "EndSession"
            /\ Count(sess.log, "AbortTransaction") = IF fnFailed THEN 1 ELSE 0
            /\ fnFailed /\ sess.abortErr = Nil => sess.ret = Return(sess.err) /\ sess.err \in FnErrs
            /\ fnFailed /\ sess.abortErr # Nil => sess.ret = Panic(sess.abortErr)
            /\ ~fnFailed /\ sess.panic = Nil => sess.ret = Return(Nil)
            /\ ~fnFailed /\ sess.panic # Nil => sess.ret = Panic(ErrFnPanic)

\* fn failed without having started a transaction, the abort failed, EndSession
\* still ran and the abort error went up as a panic.
C7_Witness ==
    /\ sess.pc = "done"
    /\ sess.txn = "none"
    /\ sess.log = <<"StartSession", "fn", "AbortTransaction", "EndSession">>
    /\ sess.ret = Panic(ErrNoTransactStarted)

(***************************************************************************)
(* The claims about the adapter, under Spec.                               *)
(***************************************************************************)
FilterOps == {"UpdateOne", "DeleteOne", "FindOne", "Find", "CountDocuments"}

InsertOps == {"InsertOne", "InsertMany"}

\* The shapes NormalizeFilter is to accept, and what it is to make of each.
Acceptable(f) ==
    \/ f.t \in {"ObjectID", "A", "D", "E", "M"}
    \/ f.t = "string" /\ WellFormedHex(f.v)

IsNormalizedOf(x, f) ==
    IF f.t = "string" THEN IsIdFilterOfHex(x, f.v)
    ELSE IF f.t = "ObjectID" THEN x = M(<<Field("_id", f)>>)
    ELSE x = f

IsNormalizationError(e) ==
    \/ e = ErrNormalizeFilter
    \/ Len(e) = 2 /\ e[1] = Link("wrapError", "", ErrMsgFromHex)
                  /\ Tail(e) \in {ErrInvalidHex, ErrInvalidByte}

\* The driver was called and reported no failure.
DriverSucceeded == last.calls # <<>> /\ last.res.err = Nil

ZeroUpdate ==
    last.res.MatchedCount = 0 /\ last.res.ModifiedCount = 0 /\ last.res.UpsertedCount = 0

\* C4: a filter-taking operation whose filter does not normalize returns the
\* normalization error and calls the driver collection not at all; one whose
\* filter normalizes calls it exactly once, its own method, with the normalized
\* filter.
C4_NormalizeBeforeDriver ==
    last.op \in FilterOps =>
        /\ ~Acceptable(last.arg) =>
              last.calls = <<>> /\ IsNormalizationError(last.err)
        /\ Acceptable(last.arg) =>
              /\ Len(last.calls) = 1
              /\ last.calls[1].op = last.op
              /\ IsNormalizedOf(last.calls[1].arg, last.arg)

\* CountDocuments was given a hex string and called the driver once, with the
\* ObjectID filter.
C4_Witness ==
    /\ last.op = "CountDocuments"
    /\ last.arg = StrV(HexStr("1"))
    /\ last.calls = <<Call("CountDocuments", M(<<Field("_id", GenOid(1))>>))>>
    /\ last.err = Nil

C5_State ==
    /\ last.op = "UpdateOne" /\ DriverSucceeded =>
          /\ IsNoDocuments(last.err) <=> ZeroUpdate
          /\ ~ZeroUpdate => last.err = Nil
    /\ last.op = "DeleteOne" /\ DriverSucceeded =>
          /\ IsNoDocuments(last.err) <=> last.res.DeletedCount = 0
          /\ last.res.DeletedCount # 0 => last.err = Nil

C5_Step ==
    /\ last = NoLast
    /\ last'.op \in {"UpdateOne", "DeleteOne"}
    /\ last'.calls # <<>> /\ last'.res.err = Nil
    /\ Matching(store, last'.calls[1].arg) = {}
    /\ last'.res.UpsertedCount = 0
    => IsNoDocuments(last'.err)

\* C5: after a successful driver call UpdateOne returns an error wrapping
\* mongo.ErrNoDocuments exactly when the matched, modified and upserted counts are
\* all 0, and DeleteOne exactly when the deleted count is 0, else nil; so an
\* update or delete whose filter selects no document, without an upsert, returns
\* the no-documents error.
C5_ZeroEffectIsNoDocuments == [](C5_State) /\ [][C5_Step]_vars

\* A DeleteOne whose filter selected nothing returned the no-documents error.
C5_Witness ==
    /\ last.op = "DeleteOne" /\ DriverSucceeded
    /\ last.res.DeletedCount = 0
    /\ last.err = Wrap(ErrMsgQuery, ErrNoDocuments)

\* C6: a successful InsertOne / InsertMany returns, without panicking, one string
\* per driver identifier, in order: the hex form of an ObjectID, otherwise the
\* identifier as given.
C6_InsertReturnsEveryId ==
    last.op \in InsertOps /\ last.res.err = Nil =>
        /\ ~last.panicked
        /\ Len(last.out) = Len(last.res.ids)
        /\ \A i \in 1..Len(last.res.ids) :
              last.out[i] = IF last.res.ids[i].t = "ObjectID"
                            THEN Hex(last.res.ids[i].v) ELSE last.res.ids[i].v

\* C8 as stated: an update that matched a document and changed nothing surfaces
\* as the no-documents error, like one that matched nothing.
C8_NoOpUpdateIsNoDocuments ==
    /\ last.op = "UpdateOne" /\ DriverSucceeded
    /\ last.res.MatchedCount >= 1 /\ last.res.ModifiedCount = 0 /\ last.res.UpsertedCount = 0
    => IsNoDocuments(last.err)

\* C8, amended: UpdateOne tells the two apart: matched nothing (and no upsert) is
\* the no-documents error, matched but changed nothing is success.
C8_NoOpUpdateSucceeds ==
    last.op = "UpdateOne" /\ DriverSucceeded =>
        /\ last.res.MatchedCount >= 1 /\ last.res.ModifiedCount = 0
              /\ last.res.UpsertedCount = 0 => last.err = Nil
        /\ ZeroUpdate => last.err = Wrap(ErrMsgQuery, ErrNoDocuments)

\* An update set a field to the value it had and returned nil.
C8_Witness ==
    /\ last.op = "UpdateOne" /\ DriverSucceeded
    /\ last.res.MatchedCount = 1 /\ last.res.ModifiedCount = 0 /\ last.res.UpsertedCount = 0
    /\ last.err = Nil

\* C9: through the interceptor, a zero-effect UpdateOne / DeleteOne and a FindOne
\* selecting nothing arrive as NotFound, a driver duplicate-key error on an
\* insert or update as AlreadyExists, a driver call cut off by the timeout as
\* DeadlineExceeded, a filter-normalization error and a decode error as Internal;
\* the adapter's wrapping never changes the code the driver's error would get.
C9_WireCodes ==
    LET code == CodeOf(rpc.err)
        d == last.res.err
    IN rpc.kind # "none" =>
        /\ rpc.handlerErr = last.err
        /\ last.op = "UpdateOne" /\ DriverSucceeded /\ ZeroUpdate => code = "NotFound"
        /\ last.op = "DeleteOne" /\ DriverSucceeded /\ last.res.DeletedCount = 0
              => code = "NotFound"
        /\ last.op = "FindOne" /\ last.calls # <<>> /\ d = ErrNoDocuments => code = "NotFound"
        /\ last.op \in {"InsertOne", "InsertMany", "UpdateOne"} /\ d = ErrDuplicateKey
              => code = "AlreadyExists"
        /\ d = ErrDeadline => code = "DeadlineExceeded"
        /\ last.op \in FilterOps /\ last.calls = <<>> => code = "Internal"
        /\ last.err = Wrap(ErrMsgDecode, ErrBsonDecode) => code = "Internal"
        /\ d # Nil => code = CodeOf(normalizeError(d))

\* A DeleteOne that deleted nothing reached the wire as NotFound.
C9_Witness ==
    /\ rpc.kind = "unary"
    /\ last.op = "DeleteOne" /\ DriverSucceeded /\ last.res.DeletedCount = 0
    /\ CodeOf(rpc.err) = "NotFound"

\* C10: every identifier string a successful insert returns is accepted by
\* NormalizeFilter and normalizes to the filter {"_id": the _id the document was
\* stored under}, which selects exactly that document.
C10_InsertedIdRoundTrips ==
    last.op \in InsertOps /\ last.res.err = Nil /\ ~last.panicked =>
        \A i \in 1..Len(last.out) :
            LET nf == NormalizeFilter(StrV(last.out[i]))
            IN /\ nf.err = Nil
               /\ nf.data = M(<<Field("_id", last.res.ids[i])>>)
               /\ Matching(store, nf.data) = {last.res.ids[i]}

====
